---- MODULE Spec2Model ----
(***************************************************************************)
(* Model of the agent-sdk-docs repository.                                 *)
(*                                                                         *)
(* Part 1: AgentExecutor.execute as the API reference describes it         *)
(*         (api/agent-executor page): message building, the tool-calling   *)
(*         loop of the diagram, token accounting, events, errors.          *)
(* Part 2: the documentation site: pages, sidebars, links and the build    *)
(*         that validates them.                                            *)
(***************************************************************************)
EXTENDS Integers, Sequences, FiniteSets, TLC

VARIABLES
    pc,          \* position of execute() in the diagram of the tool-calling loop
    options,     \* the ExecuteOptions of the running execution
    messages,    \* the message history built so far
    response,    \* the last LLM response
    pending,     \* tool calls of the last response not yet executed
    running,     \* ids of the tool calls being executed right now
    steps,       \* number of tool-calling iterations done
    usage,       \* accumulated token usage
    toolCalls,   \* all tool calls made
    events,      \* events delivered to onEvent, in order
    llmCalls,    \* log of the provider calls: what was sent, what usage came back
    failures,    \* tool failures seen so far in this execution
    extraCalls,  \* tool calls beyond the first of a response, so far
    result,      \* what execute() settled with
    tree,        \* the working tree the site is built from
    bpc,         \* phase of the site build
    loaded,      \* ids of the docs the build has loaded
    sidebarIdx,  \* next sidebar entry to validate
    checked,     \* pages whose links have been checked
    broken,      \* broken links collected so far
    buildError,  \* why the build failed
    sample,      \* the setType call of the documentation being run
    builder,     \* the configuration held by the AgentBuilder
    built,       \* outcome of build()
    rpc,         \* position of executeWithRetry
    retryMax,    \* its maxRetries
    retryI,      \* its loop counter i
    lastError,   \* its lastError
    inFlight,    \* AgentExecutor.execute calls it has pending
    retryLog,    \* its attempts, their outcomes and its waits, in order
    retryResult, \* what executeWithRetry settled with
    chatMessages,\* ChatSession.messages
    chatCalls,   \* the chat() calls made on the session, in call order
    chatOverlap  \* whether a chat() call started while another was pending

execVars == <<pc, options, messages, response, pending, running, steps, usage,
              toolCalls, events, llmCalls, failures, extraCalls, result>>

siteVars == <<tree, bpc, loaded, sidebarIdx, checked, broken, buildError>>

builderVars == <<sample, builder, built>>

retryVars == <<rpc, retryMax, retryI, lastError, inFlight, retryLog, retryResult>>

chatVars == <<chatMessages, chatCalls, chatOverlap>>

usageVars == <<builderVars, retryVars, chatVars>>

vars == <<execVars, siteVars, usageVars>>

(***************************************************************************)
(* Bounds of the model.                                                    *)
(***************************************************************************)
MaxStepsGiven == 3    \* explicit maxSteps options range over 1..MaxStepsGiven
MaxBatch == 2         \* most tool calls one LLM response carries
MaxIrregular == 1     \* most tool failures plus tool calls beyond one per
                      \* response, in one execution

(***************************************************************************)
(* Program constants.                                                      *)
(***************************************************************************)
DefaultMaxSteps == 10

NoValue == [none |-> TRUE]
Undefined == "undefined"
NoResponse == [text |-> "", toolCalls |-> << >>, usage |-> NoValue,
               finishReason |-> Undefined]
NoResult == [kind |-> "none"]

(***************************************************************************)
(* Messages.                                                               *)
(***************************************************************************)
SystemMessage(prompt) == [role |-> "system", content |-> prompt]
UserMessage(text) == [role |-> "user", content |-> text]
AssistantToolCallMessage(calls) ==
    [role |-> "assistant", content |-> "", toolCalls |-> calls]
AssistantMessage(text) == [role |-> "assistant", content |-> text]
ToolMessage(call, content) ==
    [role |-> "tool", content |-> content, name |-> call.name, toolCallId |-> call.id]

\* The inputs execute() is given: a string, or a message history.
\* (input: string | Message[]: the kind field is the TypeScript type of the value.)
StringInputs == {[kind |-> "string", text |-> "What is the weather?"]}
MessageInputs ==
    { [kind |-> "messages", msgs |-> m] : m \in
        { << UserMessage("Hello, my name is Alice") >>,
          << UserMessage("Hello, my name is Alice"),
             AssistantMessage("Hi Alice"),
             UserMessage("What's my name?") >>,
          << SystemMessage("Be brief"), UserMessage("What's my name?") >> } }
Inputs == StringInputs \cup MessageInputs
Prompts == {"You are a helpful assistant"}

IsString(input) == input.kind = "string"

\* Message Building: the system message when agent.prompt is set, then the input.
InputMessages(input) ==
    IF IsString(input) THEN << UserMessage(input.text) >> ELSE input.msgs

\* (bug variant: the system message is put after the input)
BuildMessagesPromptLast(agent, input) ==
    InputMessages(input)
        \o (IF agent.prompt # Undefined THEN << SystemMessage(agent.prompt) >> ELSE << >>)

BuildMessages(agent, input) ==
    (IF agent.prompt # Undefined THEN << SystemMessage(agent.prompt) >> ELSE << >>)
        \o InputMessages(input)

\* maxSteps?: number   (default: 10)
EffectiveMaxSteps(opts) ==
    IF opts.maxSteps.given THEN opts.maxSteps.value ELSE DefaultMaxSteps

(***************************************************************************)
(* The provider: one response per call.                                    *)
(***************************************************************************)
ToolNames == << "weather", "search", "calculator" >>

\* The n tool calls of a response; ids continue after the calls made so far.
NewToolCalls(made, n) ==
    [i \in 1..n |-> [id |-> made + i, type |-> "function",
                     name |-> ToolNames[((i - 1) % Len(ToolNames)) + 1]]]

\* Token counts of one provider call: the prompt grows with the history sent.
CallUsage(sent, n, finishReason) ==
    LET p == Len(sent)
        c == IF n > 0 THEN 1 + n ELSE IF finishReason = "stop" THEN 2 ELSE 3
    IN [promptTokens |-> p, completionTokens |-> c, totalTokens |-> p + c]

ZeroUsage == [promptTokens |-> 0, completionTokens |-> 0, totalTokens |-> 0]

\* (bug variant: the usage of the last call replaces the running total)
AddUsageOverwrite(acc, u) == u

\* Token Usage Accumulation.
AddUsage(acc, u) ==
    [promptTokens |-> acc.promptTokens + u.promptTokens,
     completionTokens |-> acc.completionTokens + u.completionTokens,
     totalTokens |-> acc.totalTokens + u.totalTokens]

Event(type, payload) == [type |-> type, payload |-> payload]

(***************************************************************************)
(* Initial state: no execution yet.                                        *)
(***************************************************************************)
ExecInit ==
    /\ pc = "idle"
    /\ options = NoValue
    /\ messages = << >>
    /\ response = NoResponse
    /\ pending = << >>
    /\ running = {}
    /\ steps = 0
    /\ usage = ZeroUsage
    /\ toolCalls = << >>
    /\ events = << >>
    /\ llmCalls = << >>
    /\ failures = 0
    /\ extraCalls = 0
    /\ result = NoResult

(***************************************************************************)
(* AgentExecutor.execute(options): Start box.                              *)
(***************************************************************************)
Execute(prompt, input, maxStepsOpt) ==
    /\ pc = "idle"
    /\ options' = [agent |-> [prompt |-> prompt], input |-> input,
                   maxSteps |-> maxStepsOpt]
    /\ messages' = BuildMessages([prompt |-> prompt], input)
    /\ events' = Append(events, Event("start", Undefined))
    /\ pc' = "callLLM"
    /\ UNCHANGED <<response, pending, running, steps, usage, toolCalls,
                   llmCalls, failures, extraCalls, result, siteVars, usageVars>>

\* Call LLM box: the provider answers with n tool calls (n = 0: plain text).
CallLLM(n, finishReason) ==
    /\ pc = "callLLM"
    /\ n > 0 => finishReason = "tool-calls"
    /\ n = 0 => finishReason \in {"stop", "length"}
    /\ failures + extraCalls + (IF n > 1 THEN n - 1 ELSE 0) <= MaxIrregular
    /\ LET u == CallUsage(messages, n, finishReason)
           calls == NewToolCalls(Len(toolCalls), n)
       IN /\ response' = [text |-> IF n = 0 THEN "answer" ELSE "",
                          toolCalls |-> calls, usage |-> u,
                          finishReason |-> finishReason]
          /\ llmCalls' = Append(llmCalls, [sent |-> messages, usage |-> u,
                                          n |-> n, made |-> Len(toolCalls)])
          /\ usage' = AddUsage(usage, u)
    /\ extraCalls' = extraCalls + (IF n > 1 THEN n - 1 ELSE 0)
    /\ pc' = "toolCalls?"
    /\ UNCHANGED <<options, messages, pending, running, steps, toolCalls,
                   events, failures, result, siteVars, usageVars>>

\* Throws: Error - If provider fails.
ProviderFails ==
    /\ pc = "callLLM"
    /\ events' = Append(events, Event("error", "provider"))
    /\ result' = [kind |-> "error", error |-> "provider"]
    /\ pc' = "done"
    /\ UNCHANGED <<options, messages, response, pending, running, steps, usage,
                   toolCalls, llmCalls, failures, extraCalls, siteVars, usageVars>>

\* (bug variant: a response with a single tool call is taken for a final one)
NoToolCallsOffByOne(resp) == Len(resp.toolCalls) <= 1

\* Tool calls? box of the diagram.
NoToolCalls(resp) == resp.toolCalls = << >>

\* (bug variant: 'finish' is emitted before the text is reported)
ReturnEventsFinishFirst(resp, u) ==
    << Event("finish", u), Event("text-complete", resp.text) >>

\* The events of a final response: the complete text, then 'finish'.
ReturnEvents(resp, u) ==
    << Event("text-complete", resp.text), Event("finish", u) >>

\* Tool calls? - No: Return.
Return ==
    /\ pc = "toolCalls?"
    /\ NoToolCalls(response)
    /\ messages' = Append(messages, AssistantMessage(response.text))
    /\ events' = events \o ReturnEvents(response, usage)
    /\ result' = [kind |-> "result",
                  text |-> response.text,
                  messages |-> messages',
                  toolCalls |-> toolCalls,
                  usage |-> usage,
                  finishReason |-> response.finishReason,
                  steps |-> steps]
    /\ pc' = "done"
    /\ UNCHANGED <<options, response, pending, running, steps, usage, toolCalls,
                   llmCalls, failures, extraCalls, siteVars, usageVars>>

\* Tool calls? - Yes: Execute tools.
BeginTools ==
    /\ pc = "toolCalls?"
    /\ ~NoToolCalls(response)
    /\ messages' = Append(messages, AssistantToolCallMessage(response.toolCalls))
    /\ toolCalls' = toolCalls \o response.toolCalls
    /\ pending' = response.toolCalls
    /\ pc' = "executeTools"
    /\ UNCHANGED <<options, response, running, steps, usage, events, llmCalls,
                   failures, extraCalls, result, siteVars, usageVars>>

\* (bug variant: the tools of a response are started together)
CanStartToolAlways(active) == TRUE

\* Tools are executed sequentially: the next one starts when none is running.
CanStartTool(active) == active = {}

\* The tool calls of the response that have not been started.
NotStarted(calls, active) == SelectSeq(calls, LAMBDA c : c.id \notin active)

\* Executor calls each tool via ToolRegistry: one at a time, in order.
ToolStart ==
    /\ pc = "executeTools"
    /\ NotStarted(pending, running) # << >>
    /\ CanStartTool(running)
    /\ running' = running \cup {Head(NotStarted(pending, running)).id}
    /\ events' = Append(events, Event("tool-call", Head(NotStarted(pending, running))))
    /\ UNCHANGED <<pc, options, messages, response, pending, steps, usage,
                   toolCalls, llmCalls, failures, extraCalls, result, siteVars, usageVars>>

ToolResult(call, ok) ==
    [toolCallId |-> call.id, toolName |-> call.name,
     result |-> IF ok THEN "ok" ELSE Undefined,
     error |-> IF ok THEN Undefined ELSE "tool failed"]

\* (bug variant: a failing tool makes execute() reject)
OnToolFinishedFatal(call, ok) ==
    IF ok
    THEN /\ events' = Append(events, Event("tool-result", ToolResult(call, ok)))
         /\ messages' = Append(messages, ToolMessage(call, "ok"))
         /\ pending' = Tail(pending)
         /\ running' = {}
         /\ failures' = failures
         /\ UNCHANGED <<pc, result>>
    ELSE /\ events' = Append(events, Event("error", "tool"))
         /\ result' = [kind |-> "error", error |-> "tool"]
         /\ pc' = "done"
         /\ running' = {}
         /\ failures' = failures + 1
         /\ UNCHANGED <<messages, pending>>

\* The tool finishes; a failure is reported in the tool-result event and its
\* message goes into the history as the tool's result.
OnToolFinished(call, ok) ==
    /\ events' = Append(events, Event("tool-result", ToolResult(call, ok)))
    /\ messages' = Append(messages,
                          ToolMessage(call, IF ok THEN "ok" ELSE "tool failed"))
    /\ pending' = Tail(pending)
    /\ running' = running \ {call.id}
    /\ failures' = IF ok THEN failures ELSE failures + 1
    /\ UNCHANGED <<pc, result>>

ToolFinish(ok) ==
    /\ pc = "executeTools"
    /\ pending # << >>
    /\ Head(pending).id \in running
    /\ ~ok => failures + extraCalls < MaxIrregular
    /\ OnToolFinished(Head(pending), ok)
    /\ UNCHANGED <<options, response, steps, usage, toolCalls, llmCalls,
                   extraCalls, siteVars, usageVars>>

\* (bug variant: off by one, one iteration too many)
StepsAtMostMax(n, opts) == n <= EffectiveMaxSteps(opts)

\* Steps < max?
StepsBelowMax(n, opts) == n < EffectiveMaxSteps(opts)

\* Steps < max? - Yes: loop back to Call LLM.
LoopBack ==
    /\ pc = "executeTools"
    /\ pending = << >>
    /\ running = {}
    /\ StepsBelowMax(steps + 1, options)
    /\ steps' = steps + 1
    /\ pc' = "callLLM"
    /\ UNCHANGED <<options, messages, response, pending, running, usage,
                   toolCalls, events, llmCalls, failures, extraCalls, result, siteVars, usageVars>>

\* (bug variant: at the limit execute() returns what it has instead of throwing)
MaxStepsReturn ==
    /\ pc = "executeTools"
    /\ pending = << >>
    /\ running = {}
    /\ ~StepsBelowMax(steps + 1, options)
    /\ steps' = steps + 1
    /\ events' = Append(events, Event("finish", usage))
    /\ result' = [kind |-> "result", text |-> response.text, messages |-> messages,
                  toolCalls |-> toolCalls, usage |-> usage,
                  finishReason |-> response.finishReason, steps |-> steps + 1]
    /\ pc' = "done"
    /\ UNCHANGED <<options, messages, response, pending, running, usage,
                   toolCalls, llmCalls, failures, extraCalls, siteVars, usageVars>>

\* Steps < max? - No: Error (maxSteps exceeded with pending tool calls).
MaxStepsError ==
    /\ pc = "executeTools"
    /\ pending = << >>
    /\ running = {}
    /\ ~StepsBelowMax(steps + 1, options)
    /\ steps' = steps + 1
    /\ events' = Append(events, Event("error", "maxSteps"))
    /\ result' = [kind |-> "error", error |-> "maxSteps"]
    /\ pc' = "done"
    /\ UNCHANGED <<options, messages, response, pending, running, usage,
                   toolCalls, llmCalls, failures, extraCalls, siteVars, usageVars>>

MaxStepsOptions ==
    {[given |-> FALSE, value |-> 0]}
        \cup {[given |-> TRUE, value |-> n] : n \in 1..MaxStepsGiven}

ExecNext ==
    \/ \E prompt \in Prompts \cup {Undefined},
          input \in Inputs,
          ms \in MaxStepsOptions : Execute(prompt, input, ms)
    \/ \E n \in 0..MaxBatch, fr \in {"stop", "length", "tool-calls"} : CallLLM(n, fr)
    \/ ProviderFails
    \/ Return
    \/ BeginTools
    \/ ToolStart
    \/ \E ok \in BOOLEAN : ToolFinish(ok)
    \/ LoopBack
    \/ MaxStepsError

(***************************************************************************)
(* Part 2: the documentation site.                                         *)
(***************************************************************************)
DocFile(dir, base) == [dir |-> dir, base |-> base, ext |-> "md"]

\* The markdown pages of the docs directory.
SrcDocFiles ==
    { DocFile(<< >>, "intro"),
      DocFile(<< >>, "overview"),
      DocFile(<< >>, "glossary"),
      DocFile(<< >>, "installation"),
      DocFile(<< >>, "quick-start"),
      DocFile(<< "concepts" >>, "tools"),
      DocFile(<< "tutorials" >>, "building-chatbot"),
      DocFile(<< "examples" >>, "chatbot"),
      DocFile(<< "api" >>, "overview"),
      DocFile(<< "api" >>, "agent-builder"),
      DocFile(<< "api" >>, "agent-executor") }

\* The page the sidebar and five pages link to as concepts/agents.
SpecDocFiles == { DocFile(<< "concepts" >>, "agents") }

HeadFiles == SrcDocFiles \cup SpecDocFiles

\* A doc id is the file's path under the docs directory, without extension.
DocId(file) == file.dir \o << file.base >>

Doc(id) == [type |-> "doc", id |-> id]
Category(label, items) == [type |-> "category", label |-> label, items |-> items]

\* (bug variant: the sidebar names a page that was never written)
sidebarsWithFlows ==
    [tutorialSidebar |->
        << Doc(<< "overview" >>), Doc(<< "intro" >>),
           Doc(<< "installation" >>), Doc(<< "quick-start" >>),
           Category("Core Concepts",
                    << Doc(<< "concepts", "agents" >>), Doc(<< "concepts", "tools" >>),
                       Doc(<< "concepts", "flows" >>) >>),
           Category("Tutorials", << Doc(<< "tutorials", "building-chatbot" >>) >>),
           Category("Examples", << Doc(<< "examples", "chatbot" >>) >>),
           Doc(<< "glossary" >>) >>,
     apiSidebar |->
        << Doc(<< "api", "overview" >>),
           Category("Core API",
                    << Doc(<< "api", "agent-builder" >>),
                       Doc(<< "api", "agent-executor" >>) >>) >>]

\* The sidebar configuration (a bare string is a doc item).
sidebars ==
    [tutorialSidebar |->
        << Doc(<< "overview" >>), Doc(<< "intro" >>),
           Doc(<< "installation" >>), Doc(<< "quick-start" >>),
           Category("Core Concepts",
                    << Doc(<< "concepts", "agents" >>), Doc(<< "concepts", "tools" >>) >>),
           Category("Tutorials", << Doc(<< "tutorials", "building-chatbot" >>) >>),
           Category("Examples", << Doc(<< "examples", "chatbot" >>) >>),
           Doc(<< "glossary" >>) >>,
     apiSidebar |->
        << Doc(<< "api", "overview" >>),
           Category("Core API",
                    << Doc(<< "api", "agent-builder" >>),
                       Doc(<< "api", "agent-executor" >>) >>) >>]

\* The doc ids of a list of sidebar items, categories included, in order.
RECURSIVE ItemsDocIds(_)
ItemsDocIds(items) ==
    IF Len(items) = 0 THEN << >>
    ELSE LET h == Head(items)
         IN (IF h.type = "doc" THEN << h.id >> ELSE ItemsDocIds(h.items))
                \o ItemsDocIds(Tail(items))

AllSidebarDocIds ==
    ItemsDocIds(sidebars.tutorialSidebar) \o ItemsDocIds(sidebars.apiSidebar)

DocSidebar(sidebarId, label) ==
    [type |-> "docSidebar", sidebarId |-> sidebarId, label |-> label]
HrefItem(href, label) ==
    [type |-> "default", sidebarId |-> "", label |-> label, href |-> href]

\* (bug variant: the navbar names the sidebar by another name)
NavbarItemsRenamed ==
    << DocSidebar("docsSidebar", "Docs"),
       DocSidebar("apiSidebar", "API"),
       HrefItem("https://github.com/LinuxDevil/agent-sdk", "GitHub") >>

\* config.themeConfig.navbar.items
NavbarItems ==
    << DocSidebar("tutorialSidebar", "Docs"),
       DocSidebar("apiSidebar", "API"),
       HrefItem("https://github.com/LinuxDevil/agent-sdk", "GitHub") >>

\* The sidebarIds of the docSidebar items of the navbar.
NavbarDocSidebarIds ==
    {NavbarItems[i].sidebarId :
        i \in {j \in 1..Len(NavbarItems) : NavbarItems[j].type = "docSidebar"}}

\* A docSidebar item links to the first doc of its sidebar: the sidebar must be
\* defined and hold a doc.
NavbarItemResolves(sidebarId) ==
    /\ sidebarId \in DOMAIN sidebars
    /\ ItemsDocIds(sidebars[sidebarId]) # << >>

\* (bug variant: broken links are only reported)
onBrokenLinksWarn == "warn"

\* config.onBrokenLinks
onBrokenLinks == "throw"

Relative(path) == [absolute |-> FALSE, path |-> path]
Absolute(path) == [absolute |-> TRUE, path |-> path]

\* config.themeConfig.footer.links: the `to` targets (href items leave the site).
FooterLinks ==
    { Absolute(<< "docs", "intro" >>),
      Absolute(<< "docs", "api", "overview" >>),
      Absolute(<< "docs", "examples", "chatbot" >>) }

\* The relative links in the markdown of each page.
MarkdownLinks(id) ==
    CASE id = << "glossary" >> ->
            { Relative(<< ".", "concepts", "agents" >>),
              Relative(<< ".", "concepts", "tools" >>) }
      [] id = << "tutorials", "building-chatbot" >> ->
            { Relative(<< "..", "api", "agent-builder" >>),
              Relative(<< "..", "api", "agent-executor" >>) }
      [] id = << "intro" >> ->
            { Relative(<< ".", "installation" >>),
              Relative(<< ".", "quick-start" >>) }
      [] id = << "overview" >> ->
            { Relative(<< ".", "installation" >>),
              Relative(<< ".", "quick-start" >>),
              Relative(<< ".", "concepts", "agents" >>),
              Relative(<< ".", "api", "agent-builder" >>),
              Relative(<< ".", "tutorials", "building-chatbot" >>) }
      [] id = << "quick-start" >> ->
            { Relative(<< ".", "concepts", "agents" >>),
              Relative(<< ".", "examples", "chatbot" >>),
              Relative(<< ".", "api", "overview" >>) }
      [] id = << "api", "agent-builder" >> ->
            { Relative(<< "..", "concepts", "tools" >>),
              Relative(<< ".", "agent-executor" >>) }
      [] id = << "api", "agent-executor" >> ->
            { Relative(<< ".", "agent-builder" >>) }
      [] id = << "installation" >> ->
            { Relative(<< ".", "quick-start" >>),
              Relative(<< ".", "concepts", "agents" >>),
              Relative(<< ".", "examples", "chatbot" >>) }
      [] OTHER -> {}

\* The footer is rendered on every page.
LinksOf(id) == MarkdownLinks(id) \cup FooterLinks

\* The route of a doc: the docs route base, then its id.
Permalink(id) == << "docs" >> \o id

Routes(files) == {Permalink(DocId(f)) : f \in files}

\* URL resolution of a relative reference against a base directory.
RECURSIVE ResolveSegments(_, _)
ResolveSegments(base, path) ==
    IF Len(path) = 0 THEN base
    ELSE LET h == Head(path)
         IN IF h = "." THEN ResolveSegments(base, Tail(path))
            ELSE IF h = ".."
                 THEN ResolveSegments(IF Len(base) = 0 THEN base
                                      ELSE SubSeq(base, 1, Len(base) - 1), Tail(path))
                 ELSE ResolveSegments(Append(base, h), Tail(path))

ResolveLink(page, link) ==
    IF link.absolute THEN link.path
    ELSE LET url == Permalink(page)
         IN ResolveSegments(SubSeq(url, 1, Len(url) - 1), link.path)

BrokenLinksOf(page, files) ==
    {[page |-> page, link |-> l] :
        l \in {k \in LinksOf(page) : ResolveLink(page, k) \notin Routes(files)}}

\* The sidebar entries of a working tree.
SidebarIdsOf(t) == SelectSeq(AllSidebarDocIds, LAMBDA id : id \notin t.unlisted)

HeadTree == [files |-> HeadFiles, unlisted |-> {}]

SiteInit ==
    /\ tree = HeadTree
    /\ bpc = "idle"
    /\ loaded = {}
    /\ sidebarIdx = 1
    /\ checked = {}
    /\ broken = {}
    /\ buildError = "none"

\* An edit of the working tree before a build: a page is deleted, with or
\* without its sidebar entry.
RemovePage(f, unlist) ==
    /\ bpc = "idle"
    /\ tree = HeadTree
    /\ f \in tree.files
    /\ tree' = [files |-> tree.files \ {f},
                unlisted |-> IF unlist THEN {DocId(f)} ELSE {}]
    /\ UNCHANGED <<bpc, loaded, sidebarIdx, checked, broken, buildError, execVars, usageVars>>

\* build: the docs are read.
LoadDocs ==
    /\ bpc = "idle"
    /\ loaded' = {DocId(f) : f \in tree.files}
    /\ bpc' = "sidebars"
    /\ UNCHANGED <<tree, sidebarIdx, checked, broken, buildError, execVars, usageVars>>

\* build: the next sidebar entry names a loaded doc.
SidebarItemValid ==
    /\ bpc = "sidebars"
    /\ sidebarIdx <= Len(SidebarIdsOf(tree))
    /\ SidebarIdsOf(tree)[sidebarIdx] \in loaded
    /\ sidebarIdx' = sidebarIdx + 1
    /\ UNCHANGED <<tree, bpc, loaded, checked, broken, buildError, execVars, usageVars>>

\* build: the next sidebar entry names no doc: the build stops.
SidebarItemInvalid ==
    /\ bpc = "sidebars"
    /\ sidebarIdx <= Len(SidebarIdsOf(tree))
    /\ SidebarIdsOf(tree)[sidebarIdx] \notin loaded
    /\ bpc' = "failed"
    /\ buildError' = "sidebar"
    /\ UNCHANGED <<tree, loaded, sidebarIdx, checked, broken, execVars, usageVars>>

SidebarsValidated ==
    /\ bpc = "sidebars"
    /\ sidebarIdx > Len(SidebarIdsOf(tree))
    /\ bpc' = "navbar"
    /\ UNCHANGED <<tree, loaded, sidebarIdx, checked, broken, buildError, execVars, usageVars>>

\* build: the docSidebar items of the navbar are resolved to their sidebars.
ResolveNavbar ==
    /\ bpc = "navbar"
    /\ IF \A sidebarId \in NavbarDocSidebarIds : NavbarItemResolves(sidebarId)
       THEN bpc' = "links" /\ buildError' = buildError
       ELSE bpc' = "failed" /\ buildError' = "navbar"
    /\ UNCHANGED <<tree, loaded, sidebarIdx, checked, broken, execVars, usageVars>>

\* build: the links of one rendered page are collected and resolved.
CheckPageLinks(page) ==
    /\ bpc = "links"
    /\ page \in loaded \ checked
    /\ broken' = broken \cup BrokenLinksOf(page, tree.files)
    /\ checked' = checked \cup {page}
    /\ UNCHANGED <<tree, bpc, loaded, sidebarIdx, buildError, execVars, usageVars>>

\* build: with every page checked, onBrokenLinks decides.
FinishBuild ==
    /\ bpc = "links"
    /\ checked = loaded
    /\ IF broken # {} /\ onBrokenLinks = "throw"
       THEN bpc' = "failed" /\ buildError' = "brokenLinks"
       ELSE bpc' = "success" /\ buildError' = buildError
    /\ UNCHANGED <<tree, loaded, sidebarIdx, checked, broken, execVars, usageVars>>

SiteNext ==
    \/ \E f \in HeadFiles, unlist \in BOOLEAN : RemovePage(f, unlist)
    \/ LoadDocs
    \/ SidebarItemValid
    \/ SidebarItemInvalid
    \/ SidebarsValidated
    \/ ResolveNavbar
    \/ \E page \in loaded : CheckPageLinks(page)
    \/ FinishBuild

(***************************************************************************)
(* Part 3: AgentBuilder and the setType calls of the code samples.         *)
(***************************************************************************)
\* enum AgentType
AgentType ==
    [SmartAssistant |-> "smart-assistant",
     SurveyAgent |-> "survey-agent",
     CommerceAgent |-> "commerce-agent",
     Flow |-> "flow"]

AgentTypeValues == {AgentType[m] : m \in DOMAIN AgentType}

Member(name) == [kind |-> "member", text |-> name]
Literal(value) == [kind |-> "literal", text |-> value]

\* The value of a setType argument: AgentType.X is the value of the member X,
\* undefined when the enum has no such member; a string literal is itself.
ArgValue(arg) ==
    IF arg.kind = "member"
    THEN IF arg.text \in DOMAIN AgentType THEN AgentType[arg.text] ELSE Undefined
    ELSE arg.text

SetTypeCall(file, line, arg) == [file |-> file, line |-> line, arg |-> arg]

\* The setType calls of the pages (one per page and argument).
SetTypeCalls ==
    { SetTypeCall("docs/concepts/tools.md", 27, Literal("smart-assistant")),
      SetTypeCall("docs/concepts/tools.md", 73, Literal("data-analyst")),
      SetTypeCall("docs/overview.md", 68, Member("SmartAssistant")),
      SetTypeCall("docs/glossary.md", 241, Member("SmartAssistant")),
      SetTypeCall("docs/intro.md", 33, Literal("chatbot")),
      SetTypeCall("unnamed/part_003", 25, Member("SmartAssistant")),
      SetTypeCall("unnamed/part_000", 31, Member("Chatbot")),
      SetTypeCall("unnamed/part_000", 156, Literal("chatbot")),
      SetTypeCall("unnamed/part_001", 28, Literal("chatbot")),
      SetTypeCall("unnamed/part_001", 157, Literal("smart-assistant")),
      SetTypeCall("unnamed/part_004", 818, Literal("chatbot")),
      SetTypeCall("unnamed/part_002", 113, Member("SmartAssistant")) }

AgentNames == {"", "Weather Chatbot"}

NoSample == SetTypeCall("", 0, Literal(""))
EmptyBuilder == [agentType |-> Undefined, typeSet |-> FALSE,
                 name |-> Undefined, prompt |-> Undefined]

BuilderInit ==
    /\ sample = NoSample
    /\ builder = EmptyBuilder
    /\ built = "none"

\* new AgentBuilder(): a sample starts with an empty configuration.
NewBuilder(call) ==
    /\ sample = NoSample
    /\ sample' = call
    /\ UNCHANGED <<builder, built, execVars, siteVars, retryVars, chatVars>>

\* setType(type: AgentType): this
SetType ==
    /\ sample # NoSample
    /\ built = "none"
    /\ ~builder.typeSet
    /\ builder' = [builder EXCEPT !.agentType = ArgValue(sample.arg), !.typeSet = TRUE]
    /\ UNCHANGED <<sample, built, execVars, siteVars, retryVars, chatVars>>

\* setName(name: string): this
SetName(name) ==
    /\ sample # NoSample
    /\ built = "none"
    /\ builder.name = Undefined
    /\ builder' = [builder EXCEPT !.name = name]
    /\ UNCHANGED <<sample, built, execVars, siteVars, retryVars, chatVars>>

\* setPrompt(prompt: string): this
SetPrompt(prompt) ==
    /\ sample # NoSample
    /\ built = "none"
    /\ builder.prompt = Undefined
    /\ builder' = [builder EXCEPT !.prompt = prompt]
    /\ UNCHANGED <<sample, built, execVars, siteVars, retryVars, chatVars>>

\* build(): checks that agentType is set, then that name is set and non-empty.
Build ==
    /\ sample # NoSample
    /\ built = "none"
    /\ built' = IF builder.agentType = Undefined THEN "agentType is required"
                ELSE IF builder.name \in {Undefined, ""} THEN "name is required"
                ELSE "config"
    /\ UNCHANGED <<sample, builder, execVars, siteVars, retryVars, chatVars>>

BuilderNext ==
    \/ \E call \in SetTypeCalls : NewBuilder(call)
    \/ SetType
    \/ \E name \in AgentNames : SetName(name)
    \/ \E prompt \in Prompts : SetPrompt(prompt)
    \/ Build

(***************************************************************************)
(* Part 4: executeWithRetry (Retry with Backoff).                          *)
(***************************************************************************)
MaxRetries == 4       \* explicit maxRetries arguments range over 0..MaxRetries

\* maxRetries: number = 3
DefaultMaxRetries == 3

RetryArguments ==
    {[given |-> FALSE, value |-> 0]}
        \cup {[given |-> TRUE, value |-> n] : n \in 0..MaxRetries}

\* What a rejected AgentExecutor.execute throws, what a resolved one returns.
ExecuteErrors == {"provider", "maxSteps"}
ExecuteTexts == {"answer"}

RetryInit ==
    /\ rpc = "idle"
    /\ retryMax = 0
    /\ retryI = 0
    /\ lastError = Undefined
    /\ inFlight = 0
    /\ retryLog = << >>
    /\ retryResult = [kind |-> "none"]

\* executeWithRetry(options, maxRetries = 3): let lastError; i = 0.
ExecuteWithRetry(arg) ==
    /\ rpc = "idle"
    /\ retryMax' = IF arg.given THEN arg.value ELSE DefaultMaxRetries
    /\ retryI' = 0
    /\ rpc' = "loop"
    /\ UNCHANGED <<lastError, inFlight, retryLog, retryResult,
                   execVars, siteVars, builderVars, chatVars>>

\* i < maxRetries: try { return await AgentExecutor.execute(options)
RetryAttempt ==
    /\ rpc = "loop"
    /\ retryI < retryMax
    /\ inFlight' = inFlight + 1
    /\ retryLog' = Append(retryLog, [type |-> "call", i |-> retryI, ms |-> 0])
    /\ rpc' = "executing"
    /\ UNCHANGED <<retryMax, retryI, lastError, retryResult,
                   execVars, siteVars, builderVars, chatVars>>

\* The attempt resolves: its result is returned.
AttemptResolves(text) ==
    /\ rpc = "executing"
    /\ inFlight' = inFlight - 1
    /\ retryLog' = Append(retryLog, [type |-> "resolved", i |-> retryI, ms |-> 0])
    /\ retryResult' = [kind |-> "result", text |-> text, attempt |-> retryI]
    /\ rpc' = "returned"
    /\ UNCHANGED <<retryMax, retryI, lastError,
                   execVars, siteVars, builderVars, chatVars>>

\* (bug variant: the backoff is also awaited after the last attempt)
ShouldWaitAlways(i, max) == i < max

\* if (i < maxRetries - 1)
ShouldWait(i, max) == i < max - 1

\* 1000 * Math.pow(2, i)
RetryDelay(i) == 1000 * (2 ^ i)

\* catch (error): lastError = error; the backoff timer is set unless this was
\* the last attempt.
AttemptRejects(error) ==
    /\ rpc = "executing"
    /\ inFlight' = inFlight - 1
    /\ lastError' = error
    /\ IF ShouldWait(retryI, retryMax)
       THEN /\ retryLog' = retryLog \o
                    << [type |-> "rejected", i |-> retryI, ms |-> 0,
                        error |-> error],
                       [type |-> "wait", i |-> retryI, ms |-> RetryDelay(retryI)] >>
            /\ rpc' = "waiting"
            /\ retryI' = retryI
       ELSE /\ retryLog' = Append(retryLog,
                                  [type |-> "rejected", i |-> retryI, ms |-> 0,
                                   error |-> error])
            /\ rpc' = "loop"
            /\ retryI' = retryI + 1
    /\ UNCHANGED <<retryMax, retryResult, execVars, siteVars, builderVars, chatVars>>

\* The timer fires: i++.
BackoffElapsed ==
    /\ rpc = "waiting"
    /\ retryI' = retryI + 1
    /\ rpc' = "loop"
    /\ UNCHANGED <<retryMax, lastError, inFlight, retryLog, retryResult,
                   execVars, siteVars, builderVars, chatVars>>

\* The loop ends: throw lastError.
RetriesExhausted ==
    /\ rpc = "loop"
    /\ ~(retryI < retryMax)
    /\ retryResult' = [kind |-> "error", error |-> lastError]
    /\ rpc' = "threw"
    /\ UNCHANGED <<retryMax, retryI, lastError, inFlight, retryLog,
                   execVars, siteVars, builderVars, chatVars>>

RetryNext ==
    \/ \E arg \in RetryArguments : ExecuteWithRetry(arg)
    \/ RetryAttempt
    \/ \E text \in ExecuteTexts : AttemptResolves(text)
    \/ \E error \in ExecuteErrors : AttemptRejects(error)
    \/ BackoffElapsed
    \/ RetriesExhausted

(***************************************************************************)
(* Part 5: ChatSession (Execution with Memory).                            *)
(***************************************************************************)
MaxChats == 3         \* most chat() calls made on the session

UserInputs == {"Weather in London?", "And in Paris?"}

\* The agent of the tutorial: it has a prompt.
ChatAgent == [prompt |-> "You are a helpful weather assistant..."]

\* result.messages of a resolved execute: the messages it built from its
\* input, one tool-calling iteration when the LLM asked for the tool, and the
\* final assistant message.
ExecutedMessages(input, withTool) ==
    BuildMessages(ChatAgent, [kind |-> "messages", msgs |-> input])
        \o (IF withTool
            THEN << AssistantToolCallMessage(NewToolCalls(0, 1)),
                    ToolMessage(NewToolCalls(0, 1)[1], "ok") >>
            ELSE << >>)
        \o << AssistantMessage("answer") >>

\* (bug variant: the user message is put in front of the history)
PushUserFront(history, userInput) == << UserMessage(userInput) >> \o history

\* this.messages.push({ role: 'user', content: userInput })
PushUser(history, userInput) == Append(history, UserMessage(userInput))

ChatInit ==
    /\ chatMessages = << >>
    /\ chatCalls = << >>
    /\ chatOverlap = FALSE

Pending(calls) == {c \in 1..Len(calls) : calls[c].state = "executing"}

\* chat(userInput), up to its await: the input is pushed and execute is called
\* with the session's messages.
Chat(userInput) ==
    /\ Len(chatCalls) < MaxChats
    /\ chatMessages' = PushUser(chatMessages, userInput)
    /\ chatCalls' = Append(chatCalls,
                           [userInput |-> userInput,
                            before |-> chatMessages,
                            sent |-> chatMessages',
                            state |-> "executing",
                            result |-> << >>])
    /\ chatOverlap' = (chatOverlap \/ Pending(chatCalls) # {})
    /\ UNCHANGED <<execVars, siteVars, builderVars, retryVars>>

\* execute resolves: this.messages = result.messages; return result.text.
ChatResolves(c, withTool) ==
    /\ c \in Pending(chatCalls)
    /\ LET res == ExecutedMessages(chatCalls[c].sent, withTool)
       IN /\ chatMessages' = res
          /\ chatCalls' = [chatCalls EXCEPT ![c].state = "resolved", ![c].result = res]
    /\ UNCHANGED <<chatOverlap, execVars, siteVars, builderVars, retryVars>>

\* execute rejects: chat() rejects at the await, nothing else runs.
ChatRejects(c) ==
    /\ c \in Pending(chatCalls)
    /\ chatCalls' = [chatCalls EXCEPT ![c].state = "rejected"]
    /\ UNCHANGED <<chatMessages, chatOverlap, execVars, siteVars, builderVars,
                   retryVars>>

ChatNext ==
    \/ \E userInput \in UserInputs : Chat(userInput)
    \/ \E c \in 1..Len(chatCalls), withTool \in BOOLEAN : ChatResolves(c, withTool)
    \/ \E c \in 1..Len(chatCalls) : ChatRejects(c)

Init == ExecInit /\ SiteInit /\ BuilderInit /\ RetryInit /\ ChatInit

SpecSite == Init /\ [][SiteNext]_vars

SpecBuilder == Init /\ [][BuilderNext]_vars

SpecRetry == Init /\ [][RetryNext]_vars

SpecChat == Init /\ [][ChatNext]_vars

UnresolvedLinks ==
    UNION {BrokenLinksOf(page, tree.files) : page \in {DocId(f) : f \in tree.files}}

\* C2: the build succeeds only if every internal link, footer targets and
\* relative markdown links alike, resolves to a page; once all pages are
\* checked, an unresolved link makes the build fail.
BuildSucceedsOnlyIfLinksResolve ==
    /\ bpc = "success" => UnresolvedLinks = {}
    /\ (bpc \in {"success", "failed"} /\ buildError # "sidebar" /\ UnresolvedLinks # {})
          => (bpc = "failed" /\ buildError = "brokenLinks")

\* A build that failed on the links to a deleted page.
BuildSucceedsOnlyIfLinksResolveWitness ==
    bpc = "failed" /\ buildError = "brokenLinks" /\ Cardinality(broken) >= 3

\* C17: every sidebarId of a docSidebar item of the navbar (tutorialSidebar,
\* apiSidebar) is a sidebar of the sidebar configuration, every sidebar defined
\* there holds at least one doc, and the build never fails on the navbar.
NavbarSidebarsDefined ==
    /\ NavbarDocSidebarIds = {"tutorialSidebar", "apiSidebar"}
    /\ \A sidebarId \in NavbarDocSidebarIds : sidebarId \in DOMAIN sidebars
    /\ \A sidebarId \in DOMAIN sidebars : Len(ItemsDocIds(sidebars[sidebarId])) > 0
    /\ buildError # "navbar"

\* The build of the unchanged repository has resolved the navbar and goes on
\* to the pages.
NavbarSidebarsDefinedWitness ==
    tree = HeadTree /\ bpc = "links" /\ checked # {} /\ buildError = "none"

Next == ExecNext
Spec == Init /\ [][Next]_vars

\* execute() is an async function on the event loop: a continuation that is
\* ready (the provider or a tool has settled) is eventually run.
FairSpec == Spec /\ WF_vars(Next)

(***************************************************************************)
(* Properties of AgentExecutor.execute.                                    *)
(***************************************************************************)
Returned == pc = "done" /\ result.kind = "result"
Threw == pc = "done" /\ result.kind = "error"

ToolResultIds(msgs) ==
    {msgs[i].toolCallId : i \in {j \in 1..Len(msgs) : msgs[j].role = "tool"}}

\* C3: execute follows the tool-calling loop. Every LLM call is sent a history
\* that holds a tool result for each tool call requested before it; an LLM call
\* follows a response only if that response carried tool calls; execute returns
\* only on a response without tool calls, after steps + 1 LLM calls, with every
\* requested tool call resolved (its result in the returned messages, nothing
\* pending or running).
ToolCallingLoop ==
    /\ \A k \in 1..Len(llmCalls) :
          /\ ToolResultIds(llmCalls[k].sent) = 1..llmCalls[k].made
          /\ k < Len(llmCalls) => llmCalls[k].n > 0
          /\ k > 1 => llmCalls[k].made = llmCalls[k-1].made + llmCalls[k-1].n
    /\ Returned =>
          /\ response.toolCalls = << >>
          /\ llmCalls[Len(llmCalls)].n = 0
          /\ Len(llmCalls) = result.steps + 1
          /\ ToolResultIds(result.messages) = {toolCalls[i].id : i \in 1..Len(toolCalls)}
          /\ result.toolCalls = toolCalls
          /\ pending = << >> /\ running = {}

\* A returned execution with two tool-calling iterations and three tool calls.
ToolCallingLoopWitness ==
    Returned /\ result.steps = 2 /\ Len(result.toolCalls) = 3

ToolIterations == Cardinality({k \in 1..Len(llmCalls) : llmCalls[k].n > 0})

StepsBounded ==
    pc # "idle" =>
        LET max == IF options.maxSteps.given THEN options.maxSteps.value ELSE 10
        IN /\ steps <= max
           /\ ToolIterations <= max
           /\ Returned => result.steps <= max

\* C4: execute terminates whatever the LLM answers, the number of tool-calling
\* iterations never exceeds maxSteps (10 when not given), and result.steps of a
\* returned result is at most maxSteps.
ExecuteTerminates == [](StepsBounded) /\ <>(pc = "done")

\* The LLM asked for a tool call in every response under the default maxSteps.
ExecuteTerminatesWitness ==
    pc = "done" /\ ~options.maxSteps.given /\ ToolIterations = 10

MaxStepsReturnsResult ==
    (pc = "done" /\ steps >= EffectiveMaxSteps(options)) =>
        /\ result.kind = "result"
        /\ result.steps >= EffectiveMaxSteps(options)
        /\ result.finishReason # "stop"

FailedToolResults ==
    {events[i].payload : i \in {j \in 1..Len(events) :
        events[j].type = "tool-result" /\ events[j].payload.error # Undefined}}

HasToolError(msgs, r) ==
    \E j \in 1..Len(msgs) :
        /\ msgs[j].role = "tool"
        /\ msgs[j].toolCallId = r.toolCallId
        /\ msgs[j].content = r.error

ToolFailureThrows == (pc = "done" /\ failures > 0) => result.kind = "error"

ExpectedPrefix(opts) ==
    (IF opts.agent.prompt # Undefined
     THEN << [role |-> "system", content |-> opts.agent.prompt] >> ELSE << >>)
    \o (IF opts.input.kind = "string"
        THEN << [role |-> "user", content |-> opts.input.text] >>
        ELSE opts.input.msgs)

\* Role and tool-call ids of a message appended during tool calling.
Shape(m) ==
    IF m.role = "tool" THEN [role |-> "tool", ids |-> << m.toolCallId >>]
    ELSE IF "toolCalls" \in DOMAIN m
         THEN [role |-> "assistant",
               ids |-> [i \in 1..Len(m.toolCalls) |-> m.toolCalls[i].id]]
         ELSE [role |-> m.role, ids |-> << >>]

IterationShape(from, n) ==
    << [role |-> "assistant", ids |-> [i \in 1..n |-> from + i]] >>
        \o [i \in 1..n |-> [role |-> "tool", ids |-> << from + i >>]]

RECURSIVE ExpectedTail(_)
ExpectedTail(k) ==
    IF k = 0 THEN << >>
    ELSE ExpectedTail(k - 1) \o IterationShape(llmCalls[k].made, llmCalls[k].n)

\* C9: the messages of every LLM call are, in this order: the system message
\* of agent.prompt when it is set; the input (a string as exactly one user
\* message, a Message[] unchanged and in order); then, per tool-calling
\* iteration in the order they occurred, the assistant tool-call message
\* followed by the tool-result messages of its calls in call order.
MessageOrder ==
    \A k \in 1..Len(llmCalls) :
        LET sent == llmCalls[k].sent
            prefix == ExpectedPrefix(options)
            rest == SubSeq(sent, Len(prefix) + 1, Len(sent))
        IN /\ Len(sent) >= Len(prefix)
           /\ SubSeq(sent, 1, Len(prefix)) = prefix
           /\ [i \in 1..Len(rest) |-> Shape(rest[i])] = ExpectedTail(k - 1)

MessageOrderWitness ==
    /\ Len(llmCalls) = 3
    /\ options.agent.prompt # Undefined
    /\ options.input.kind = "messages" /\ Len(options.input.msgs) = 3
    /\ Len(toolCalls) = 3

RECURSIVE SumPromptTokens(_)
SumPromptTokens(k) ==
    IF k = 0 THEN 0 ELSE SumPromptTokens(k - 1) + llmCalls[k].usage.promptTokens
RECURSIVE SumCompletionTokens(_)
SumCompletionTokens(k) ==
    IF k = 0 THEN 0 ELSE SumCompletionTokens(k - 1) + llmCalls[k].usage.completionTokens
RECURSIVE SumTotalTokens(_)
SumTotalTokens(k) ==
    IF k = 0 THEN 0 ELSE SumTotalTokens(k - 1) + llmCalls[k].usage.totalTokens

\* C10: in a returned result each of usage.promptTokens, usage.completionTokens
\* and usage.totalTokens is the sum of that count over all LLM calls of the
\* execution, the initial one and one per tool-calling iteration.
UsageAccumulated ==
    Returned =>
        /\ Len(llmCalls) = result.steps + 1
        /\ result.usage.promptTokens = SumPromptTokens(Len(llmCalls))
        /\ result.usage.completionTokens = SumCompletionTokens(Len(llmCalls))
        /\ result.usage.totalTokens = SumTotalTokens(Len(llmCalls))

UsageAccumulatedWitness == Returned /\ result.steps = 3 /\ failures = 0

EventIndexes(type) == {i \in 1..Len(events) : events[i].type = type}

\* C11: the tools of one execution run one after the other: at most one tool
\* call is running at any time, it is the first unfinished call of the
\* response, and the 'tool-call' events outnumber the 'tool-result' events by
\* exactly the number of running tools.
SequentialTools ==
    /\ Cardinality(running) <= 1
    /\ running # {} => (pending # << >> /\ running = {Head(pending).id})
    /\ Cardinality(EventIndexes("tool-call"))
          = Cardinality(EventIndexes("tool-result")) + Cardinality(running)

\* The second tool call of a response is running, the first has finished.
SequentialToolsWitness ==
    /\ Len(response.toolCalls) = 2
    /\ Len(pending) = 1
    /\ running = {pending[1].id}

\* C12: a returned execution has delivered exactly one 'start', as the first
\* event, and exactly one 'finish', as the last one, and every 'tool-call'
\* event is directly followed by the 'tool-result' event of the same call.
EventOrder ==
    Returned =>
        /\ EventIndexes("start") = {1}
        /\ EventIndexes("finish") = {Len(events)}
        /\ \A i \in EventIndexes("tool-call") :
              /\ i < Len(events)
              /\ events[i + 1].type = "tool-result"
              /\ events[i + 1].payload.toolCallId = events[i].payload.id

EventOrderWitness ==
    Returned /\ Cardinality(EventIndexes("tool-call")) = 3 /\ failures = 1

(***************************************************************************)
(* Properties of the code samples.                                         *)
(***************************************************************************)
\* C13: the agent type setType accepts is one of exactly four values,
\* 'smart-assistant', 'survey-agent', 'commerce-agent' and 'flow', and the
\* agent type every setType call of the pages passes is one of them.
SetTypeArgumentsValid ==
    /\ AgentTypeValues = {"smart-assistant", "survey-agent", "commerce-agent", "flow"}
    /\ builder.typeSet => builder.agentType \in AgentTypeValues

RetryIndexes(type) == {k \in 1..Len(retryLog) : retryLog[k].type = type}

\* C14: executeWithRetry calls execute at most maxRetries times and never has
\* two calls pending; a resolved attempt is the last entry of its history and
\* its result is what is returned; attempt i > 0 comes directly after a wait of
\* 1000 * 2^(i-1) ms that follows the rejection of attempt i-1; no wait follows
\* the rejection of attempt maxRetries-1, after which lastError is thrown.
RetryWithBackoff ==
    /\ Cardinality(RetryIndexes("call")) <= retryMax
    /\ inFlight <= 1
    /\ \A k \in RetryIndexes("resolved") :
          /\ k = Len(retryLog)
          /\ rpc = "returned"
          /\ retryResult.kind = "result" /\ retryResult.attempt = retryLog[k].i
    /\ rpc = "returned" => RetryIndexes("resolved") # {}
    /\ \A k \in RetryIndexes("call") :
          /\ retryLog[k].i = Cardinality({j \in RetryIndexes("call") : j < k})
          /\ retryLog[k].i > 0 =>
                /\ k > 2
                /\ retryLog[k-1].type = "wait"
                /\ retryLog[k-1].ms = 1000 * (2 ^ (retryLog[k].i - 1))
                /\ retryLog[k-2].type = "rejected"
                /\ retryLog[k-2].i = retryLog[k].i - 1
    /\ \A k \in RetryIndexes("wait") :
          /\ retryLog[k].i < retryMax - 1
          /\ retryLog[k-1].type = "rejected" /\ retryLog[k-1].i = retryLog[k].i
    /\ \A k \in RetryIndexes("rejected") :
          (retryLog[k].i < retryMax - 1 /\ k < Len(retryLog)) => retryLog[k+1].type = "wait"
    /\ rpc = "threw" =>
          /\ Cardinality(RetryIndexes("call")) = retryMax
          /\ RetryIndexes("resolved") = {}
          /\ retryMax > 0 =>
                /\ retryLog[Len(retryLog)].type = "rejected"
                /\ retryResult.error = retryLog[Len(retryLog)].error

\* The third attempt succeeded, after waits of 1000 and 2000 ms.
RetryWithBackoffWitness ==
    /\ rpc = "returned" /\ retryResult.attempt = 2
    /\ {retryLog[k].ms : k \in RetryIndexes("wait")} = {1000, 2000}

UserContents(history) ==
    LET users == SelectSeq(history, LAMBDA m : m.role = "user")
    IN [j \in 1..Len(users) |-> users[j].content]

NoChatRejected == \A c \in 1..Len(chatCalls) : chatCalls[c].state # "rejected"

\* C15: as long as the chat() calls do not overlap and succeed, the k-th call
\* passes to execute a history whose user messages are the inputs of calls
\* 1..k in call order, with the k-th input as the last message, and once the
\* last call has returned the session's messages are its result.messages.
ChatMemory ==
    (~chatOverlap /\ NoChatRejected) =>
        /\ \A k \in 1..Len(chatCalls) :
              /\ UserContents(chatCalls[k].sent)
                    = [j \in 1..k |-> chatCalls[j].userInput]
              /\ chatCalls[k].sent[Len(chatCalls[k].sent)]
                    = [role |-> "user", content |-> chatCalls[k].userInput]
        /\ (chatCalls # << >> /\ chatCalls[Len(chatCalls)].state = "resolved") =>
              chatMessages = chatCalls[Len(chatCalls)].result

\* Three turns, one after the other, the last one returned.
ChatMemoryWitness ==
    /\ ~chatOverlap /\ NoChatRejected
    /\ Len(chatCalls) = 3 /\ Pending(chatCalls) = {}

\* C16: after a chat() whose execute rejected the session's messages are those
\* of before the call, and when two overlapping chat() calls have both
\* returned the session's messages hold both user inputs.
ChatKeepsMessages ==
    /\ (~chatOverlap /\ chatCalls # << >>
            /\ chatCalls[Len(chatCalls)].state = "rejected") =>
          chatMessages = chatCalls[Len(chatCalls)].before
    /\ (Len(chatCalls) = 2 /\ chatOverlap
            /\ \A c \in 1..2 : chatCalls[c].state = "resolved") =>
          \A c \in 1..2 :
              \E j \in 1..Len(chatMessages) :
                  chatMessages[j] = [role |-> "user", content |-> chatCalls[c].userInput]

====
